---------------------------- MODULE Spec2Model ----------------------------
(***************************************************************************)
(* Model of cpp2c::Cpp2CASTConsumer::HandleTranslationUnit                 *)
(* (src/src/Cpp2CASTConsumer.cc) and of the helpers it calls.              *)
(*                                                                         *)
(* The translation unit's AST is a fixed small statement forest (Nodes).  *)
(* The macro forest (MF->Expansions) is built by the expansions the        *)
(* preprocessor reports, one action per begin and per end of an            *)
(* expansion.  The loop over the expansions is one action per iteration;   *)
(* what the AST aligner (findAlignedASTNodesForExpansion, called inside    *)
(* the iteration) and the macro info / source manager answer for the       *)
(* expansion is drawn when the iteration reads it.                         *)
(*                                                                         *)
(* The boolean locals of the loop body are declared without initializer    *)
(* (lines 617-666).  Reading one that no executed statement assigned is a  *)
(* read of an indeterminate value: the model takes it from a frame of      *)
(* stack contents chosen nondeterministically for each iteration (all      *)
(* bits clear or all bits set).                                            *)
(*                                                                         *)
(* After the loop the nodes are deleted (lines 1121-1125), one action per  *)
(* entry of the list.  The classification of the include directives        *)
(* (lines 419-435, isGlobalInclude) comes before the loop and shares no    *)
(* state with it; it is specified by IncludeSpec, the rest by Spec.        *)
(***************************************************************************)
EXTENDS Integers, Sequences, FiniteSets, TLC

(***************************************************************************)
(* Bounds of the model.                                                    *)
(***************************************************************************)
MaxExpansions == 2
MaxDepth == 1
MaxArgs == 2
MaxIncludes == 2

(***************************************************************************)
(* The AST of the translation unit.  Node 0 is the null pointer; a child   *)
(* list holds it where Stmt::children() yields a null child, as for the    *)
(* missing init, condition variable, condition and increment of a for      *)
(* statement.                                                              *)
(*                                                                         *)
(*   a = (g);                      1 '=' (2 a, 3 ImplicitCast(4 Paren(5 g)))*)
(*   { i++; break; }               6 Compound(7 '++'(8 i), 9 break)        *)
(*   return 1;                     10 Return(11 literal)                   *)
(*   c ? h() : h2();               21 '?:' (22 c, 12 call, 23 call), of    *)
(*                                 type void                               *)
(*   <expression without type>     13                                      *)
(*   goto L;                       14                                      *)
(*   continue;                     15                                      *)
(*   (k)--;                        16 '--' (17 Paren(18 k))                *)
(*   for (;;) ;                    19 For(null, null, null, null, 20 ';')  *)
(***************************************************************************)
NullNode == 0

Kind ==
    << "BinaryOperator", "DeclRefExpr", "ImplicitCastExpr", "ParenExpr",
       "DeclRefExpr", "CompoundStmt", "UnaryOperator", "DeclRefExpr",
       "BreakStmt", "ReturnStmt", "IntegerLiteral", "CallExpr",
       "RecoveryExpr", "GotoStmt", "ContinueStmt", "UnaryOperator",
       "ParenExpr", "DeclRefExpr", "ForStmt", "NullStmt",
       "ConditionalOperator", "DeclRefExpr", "CallExpr" >>

Nodes == DOMAIN Kind

\* Stmt::children()
Children ==
    << <<2, 3>>, <<>>, <<4>>, <<5>>,
       <<>>, <<7, 9>>, <<8>>, <<>>,
       <<>>, <<11>>, <<>>, <<>>,
       <<>>, <<>>, <<>>, <<17>>,
       <<18>>, <<>>, <<0, 0, 0, 0, 20>>, <<>>,
       <<22, 12, 23>>, <<>>, <<>> >>

\* Opcode of the binary and unary operators
Opcode ==
    [n \in Nodes |->
        IF n = 1 THEN "=" ELSE IF n = 7 THEN "++" ELSE IF n = 16 THEN "--"
        ELSE ""]

ExprKinds ==
    { "BinaryOperator", "DeclRefExpr", "ImplicitCastExpr", "ParenExpr",
      "UnaryOperator", "IntegerLiteral", "CallExpr", "RecoveryExpr",
      "ConditionalOperator" }

\* clang::isa<clang::Expr>(n)
IsExpr(n) == n # NullNode /\ Kind[n] \in ExprKinds

\* The types of the translation unit; NullType is the null QualType.
NullType == "<null QualType>"
Types == {"int", "void", "struct (unnamed)", "struct L", "late_t"}
VoidTypes == {"void"}
AnonymousTypes == {"struct (unnamed)"}
LocalTypes == {"struct L"}
TypesDefinedAfterMacro == {"late_t"}

\* Expr::getType()
ExprType ==
    [n \in Nodes |->
        IF n \in {12, 21, 23} THEN "void"
        ELSE IF n = 13 THEN NullType
        ELSE IF IsExpr(n) THEN "int"
        ELSE NullType]

\* DeclRefExpr::getDecl() is a VarDecl with local storage
RefersToLocal == [n \in Nodes |-> n \in {2, 8}]

\* Expr::isIntegerConstantExpr
IsICE == [n \in Nodes |-> n = 11]

\* TypeLoc::getType() of the type-locations of the translation unit
TypeLocs == {1, 2}
TypeLocType == [t \in TypeLocs |-> IF t = 1 THEN "int" ELSE NullType]

(***************************************************************************)
(* cpp2c::DeclStmtTypeLoc: at most one of D, ST, TL is non-null.  NullRoot *)
(* stands for a null DeclStmtTypeLoc pointer.                              *)
(***************************************************************************)
NullRoot == [tag |-> "null", id |-> 0]
StmtRoot(n) == [tag |-> "ST", id |-> n]
DeclRoot(d) == [tag |-> "D", id |-> d]
TypeLocRoot(t) == [tag |-> "TL", id |-> t]

RootST(r) == IF r.tag = "ST" THEN r.id ELSE NullNode
RootD(r) == IF r.tag = "D" THEN r.id ELSE 0
RootTL(r) == IF r.tag = "TL" THEN r.id ELSE 0

(***************************************************************************)
(* subtrees (lines 30-47): breadth-first collection with an explicit       *)
(* queue.                                                                  *)
(***************************************************************************)
RECURSIVE subtreesLoop(_, _)
subtreesLoop(Q, Subtrees) ==
    IF Q = <<>> THEN [Subtrees |-> Subtrees, DerefsNull |-> FALSE]
    ELSE LET Cur == Head(Q)
         IN  IF Cur = NullNode
             THEN \* line 42 inserts the null pointer, line 43 calls
                  \* children() through it
                  [Subtrees |-> Subtrees \cup {Cur}, DerefsNull |-> TRUE]
             ELSE subtreesLoop(Tail(Q) \o Children[Cur], Subtrees \cup {Cur})

\* What subtrees returns, where it returns
subtrees(ST) ==
    IF ST = NullNode THEN {} ELSE subtreesLoop(<<ST>>, {}).Subtrees

\* Whether subtrees takes a null pointer from its queue and calls
\* children() through it (line 43)
subtreesDerefsNull(ST) ==
    IF ST = NullNode THEN FALSE ELSE subtreesLoop(<<ST>>, {}).DerefsNull

(***************************************************************************)
(* inTree (lines 60-74): "true", "false", or "null" where the loop takes a *)
(* null pointer from its queue, finds it different from LHS and calls      *)
(* children() through it (line 70).                                        *)
(***************************************************************************)
RECURSIVE inTreeLoop(_, _)
inTreeLoop(LHS, Q) ==
    IF Q = <<>> THEN "false"
    ELSE LET Cur == Head(Q)
         IN  IF LHS = Cur THEN "true"
             ELSE IF Cur = NullNode THEN "null"
             ELSE inTreeLoop(LHS, Tail(Q) \o Children[Cur])

inTree(LHS, RHS) == inTreeLoop(LHS, <<RHS>>)

\* Mutant of skipImplicitAndParens: an if in place of the while, so that one
\* layer only is stripped.
skipImplicitAndParens_Once(E) ==
    IF E # NullNode /\ Kind[E] \in {"ParenExpr", "ImplicitCastExpr"}
    THEN Children[E][1]
    ELSE E

(***************************************************************************)
(* skipImplicitAndParens (lines 49-58).                                    *)
(***************************************************************************)
RECURSIVE skipImplicitAndParens(_)
skipImplicitAndParens(E) ==
    IF E # NullNode /\ Kind[E] \in {"ParenExpr", "ImplicitCastExpr"}
    THEN skipImplicitAndParens(Children[E][1])
    ELSE E

(***************************************************************************)
(* isInType and the three type predicates built on it (lines 78-196).      *)
(* The translation unit has no pointer or array types, so the unwrapping   *)
(* loop of isInType runs zero times.                                       *)
(***************************************************************************)
hasTypeDefinedAfter(QT) == QT # NullType /\ QT \in TypesDefinedAfterMacro
hasAnonymousType(QT) == QT # NullType /\ QT \in AnonymousTypes
hasLocalType(QT) == QT # NullType /\ QT \in LocalTypes

(***************************************************************************)
(* The translation-unit-wide sets of AST nodes (lines 441-508).            *)
(***************************************************************************)
AllDeclRefExprs == {n \in Nodes : Kind[n] = "DeclRefExpr"}

DeclRefExprsOfLocallyDefinedDecls ==
    {n \in AllDeclRefExprs : RefersToLocal[n]}

AssignmentOpcodes == {"=", "+=", "-="}

SideEffectExprs ==
    {n \in Nodes :
        \/ Kind[n] = "BinaryOperator" /\ Opcode[n] \in AssignmentOpcodes
        \/ Kind[n] = "UnaryOperator" /\ Opcode[n] \in {"++", "--"}}

\* BinaryOperator::getLHS() and UnaryOperator::getSubExpr() are the first child
SideEffectExprsLHSs == {Children[n][1] : n \in SideEffectExprs}

\* lines 529-558: the true and false expressions of every conditional
\* operator (the translation unit has no && and no ||)
ConditionalExprOperands ==
    UNION {{Children[n][2], Children[n][3]} :
              n \in {m \in Nodes : Kind[m] = "ConditionalOperator"}}

(***************************************************************************)
(* Source locations.  A location carries what the SourceManager answers    *)
(* about it; strings that hold a location are sequences of the fields      *)
(* that ':' separates.                                                     *)
(***************************************************************************)
LocAnswers ==
    [SLocValid : BOOLEAN, FIDValid : BOOLEAN, HasFileEntry : BOOLEAN,
     Named : BOOLEAN, FLocValid : BOOLEAN]

GoodAnswers ==
    [SLocValid |-> TRUE, FIDValid |-> TRUE, HasFileEntry |-> TRUE,
     Named |-> TRUE, FLocValid |-> TRUE]

\* FileEntry::tryGetRealPathName() and SourceLocation::printToString()
DefFile == [RealPathName |-> "/src/defs.h", Printed |-> <<"defs.h", "3", "9">>]
UseFile == [RealPathName |-> "/src/main.c", Printed |-> <<"main.c", "7", "5">>]

\* s.substr(s.rfind(':', s.rfind(':') - 1) + 1): what follows the
\* second-to-last colon
AfterSecondToLastColon(s) == SubSeq(s, Len(s) - 1, Len(s))

\* Mutant of tryGetFullSourceLoc: the file name is tested before the file ID
\* and the file entry.
tryGetFullSourceLoc_NameFirst(L, F) ==
    IF ~L.SLocValid THEN [first |-> FALSE, second |-> <<"Invalid SLoc">>]
    ELSE IF ~L.Named THEN [first |-> FALSE, second |-> <<"Nameless file">>]
    ELSE IF ~L.FIDValid THEN [first |-> FALSE, second |-> <<"Invalid file ID">>]
    ELSE IF ~L.HasFileEntry
         THEN [first |-> FALSE, second |-> <<"File without FileEntry">>]
    ELSE IF ~L.FLocValid
         THEN [first |-> FALSE, second |-> <<"Invalid File SLoc">>]
    ELSE [first |-> TRUE,
          second |-> <<F.RealPathName>> \o SubSeq(F.Printed, 2, 3)]

\* tryGetFullSourceLoc (lines 243-274)
tryGetFullSourceLoc(L, F) ==
    IF L.SLocValid
    THEN IF L.FIDValid
         THEN IF L.HasFileEntry
              THEN IF L.Named
                   THEN IF L.FLocValid
                        THEN [first |-> TRUE,
                              second |-> <<F.RealPathName>>
                                         \o AfterSecondToLastColon(F.Printed)]
                        ELSE [first |-> FALSE, second |-> <<"Invalid File SLoc">>]
                   ELSE [first |-> FALSE, second |-> <<"Nameless file">>]
              ELSE [first |-> FALSE, second |-> <<"File without FileEntry">>]
         ELSE [first |-> FALSE, second |-> <<"Invalid file ID">>]
    ELSE [first |-> FALSE, second |-> <<"Invalid SLoc">>]

(***************************************************************************)
(* What the iteration reads about one expansion: the macro info            *)
(* (Exp->MI), the two locations, and what the AST search of                *)
(* findAlignedASTNodesForExpansion matches for the expansion (ASTRoots)    *)
(* and for each of its arguments (AlignedRoots).  NumExpansions is the     *)
(* number of times the argument's parameter occurs in the macro body.      *)
(***************************************************************************)
RootLists ==
    { <<>>,
      <<StmtRoot(1)>>, <<StmtRoot(6)>>, <<StmtRoot(10)>>, <<StmtRoot(11)>>,
      <<StmtRoot(12)>>, <<StmtRoot(13)>>, <<StmtRoot(14)>>, <<StmtRoot(15)>>,
      <<StmtRoot(16)>>, <<StmtRoot(17)>>, <<StmtRoot(18)>>,
      <<StmtRoot(2)>>, <<StmtRoot(19)>>,
      <<DeclRoot(1)>>, <<TypeLocRoot(1)>>, <<TypeLocRoot(2)>>,
      <<StmtRoot(1), DeclRoot(1)>> }

\* The expansions examined with every list of arguments
RootListsWithArguments ==
    { <<StmtRoot(1)>>, <<StmtRoot(6)>>, <<StmtRoot(16)>> }

ArgChoices ==
    { [AlignedRoots |-> <<>>, NumExpansions |-> 0],
      [AlignedRoots |-> <<>>, NumExpansions |-> 1],
      [AlignedRoots |-> <<StmtRoot(2)>>, NumExpansions |-> 1],
      [AlignedRoots |-> <<StmtRoot(5)>>, NumExpansions |-> 1],
      [AlignedRoots |-> <<StmtRoot(18)>>, NumExpansions |-> 1],
      [AlignedRoots |-> <<StmtRoot(7)>>, NumExpansions |-> 1],
      [AlignedRoots |-> <<StmtRoot(9)>>, NumExpansions |-> 1],
      [AlignedRoots |-> <<StmtRoot(12)>>, NumExpansions |-> 1],
      [AlignedRoots |-> <<StmtRoot(13)>>, NumExpansions |-> 1],
      [AlignedRoots |-> <<DeclRoot(1)>>, NumExpansions |-> 1],
      [AlignedRoots |-> <<StmtRoot(2), StmtRoot(5)>>, NumExpansions |-> 2] }

ArgLists == UNION {[1..n -> ArgChoices] : n \in 0..MaxArgs}

ShortArgLists == {A \in ArgLists : Len(A) <= 1}

\* An object-like macro takes no arguments.
AstInputs ==
    [ObjectLike : {FALSE}, ASTRoots : RootListsWithArguments,
     Arguments : ArgLists,
     DefLoc : {GoodAnswers}, SpellLoc : {GoodAnswers}]
    \cup
    [ObjectLike : {FALSE}, ASTRoots : RootLists, Arguments : ShortArgLists,
     DefLoc : {GoodAnswers}, SpellLoc : {GoodAnswers}]
    \cup
    [ObjectLike : {TRUE}, ASTRoots : RootLists, Arguments : {<<>>},
     DefLoc : {GoodAnswers}, SpellLoc : {GoodAnswers}]

LocInputs ==
    [ObjectLike : {TRUE}, ASTRoots : {<<StmtRoot(11)>>}, Arguments : {<<>>},
     DefLoc : LocAnswers, SpellLoc : {GoodAnswers}]
    \cup
    [ObjectLike : {TRUE}, ASTRoots : {<<StmtRoot(11)>>}, Arguments : {<<>>},
     DefLoc : {GoodAnswers}, SpellLoc : LocAnswers]

ExpansionInputs == AstInputs \cup LocInputs

(***************************************************************************)
(* findAlignedASTNodesForExpansion (called at line 698): the aligned root  *)
(* is the single match, if there is exactly one.                           *)
(***************************************************************************)
AlignedRootOf(ASTRoots) ==
    IF Len(ASTRoots) = 1 THEN ASTRoots[1] ELSE NullRoot

(***************************************************************************)
(* The boolean locals declared without initializer at lines 617-666 that   *)
(* some path through the loop body leaves unassigned, and the stack        *)
(* contents an iteration may find in their place.                          *)
(***************************************************************************)
IndeterminateLocals ==
    { "HasSameNameAsOtherDeclaration",
      "DoesBodyContainDeclRefExpr",
      "DoesAnyArgumentHaveSideEffects",
      "DoesAnyArgumentContainDeclRefExpr",
      "IsHygienic",
      "IsExpansionICE",
      "IsExpansionTypeNull",
      "IsExpansionTypeAnonymous",
      "IsExpansionTypeLocalType",
      "IsExpansionTypeDefinedAfterMacro",
      "IsExpansionTypeVoid",
      "IsAnyArgumentTypeNull",
      "IsAnyArgumentTypeAnonymous",
      "IsAnyArgumentTypeLocalType",
      "IsAnyArgumentTypeDefinedAfterMacro",
      "IsAnyArgumentTypeVoid",
      "IsInvokedWhereModifiableValueRequired",
      "IsAnyArgumentExpandedWhereModifiableValueRequired",
      "IsAnyArgumentNeverExpanded",
      "IsAnyArgumentConditionallyEvaluated",
      "IsAnyArgumentNotAnExpression" }

GarbageFrames == {[f \in IndeterminateLocals |-> b] : b \in BOOLEAN}

(***************************************************************************)
(* The pieces of one iteration of the expansion loop (lines 588-1119).     *)
(***************************************************************************)

\* Mutant of StopsAtMarker: the test of InMacroArg is lost.
StopsAtMarker_DepthOnly(Exp) == Exp.Depth # 0

\* line 594: nested invocations and macro arguments stop at the marker line
StopsAtMarker(Exp) == Exp.Depth # 0 \/ Exp.InMacroArg

\* lines 596-598
MarkerLabel(Exp) ==
    IF Exp.Depth # 0 THEN "Nested Invocation" ELSE "Invoked In Macro Argument"

\* Mutant of ASTKindOfRoot: the test of line 712 for a null aligned root is
\* lost and the last branch is taken without its test.
ASTKindOfRoot_NoNullTest(AlignedRoot) ==
    IF RootST(AlignedRoot) # NullNode THEN "Stmt"
    ELSE IF RootD(AlignedRoot) # 0 THEN "Decl"
    ELSE "TypeLoc"

\* lines 712-743: the AST kind before the body block refines it
ASTKindOfRoot(AlignedRoot) ==
    IF AlignedRoot # NullRoot
    THEN IF RootST(AlignedRoot) # NullNode THEN "Stmt"
         ELSE IF RootD(AlignedRoot) # 0 THEN "Decl"
         ELSE IF RootTL(AlignedRoot) # 0 THEN "TypeLoc"
         ELSE ""
    ELSE ""

\* Mutant of HasAlignedArgumentsOf: std::any_of in place of std::all_of.
HasAlignedArgumentsOf_AnyOf(Arguments) ==
    \E i \in 1..Len(Arguments) :
        Len(Arguments[i].AlignedRoots) = Arguments[i].NumExpansions

\* lines 748-752: std::all_of over Exp->Arguments
RECURSIVE HasAlignedArgumentsOf(_)
HasAlignedArgumentsOf(Arguments) ==
    IF Arguments = <<>> THEN TRUE
    ELSE IF Len(Head(Arguments).AlignedRoots) = Head(Arguments).NumExpansions
         THEN HasAlignedArgumentsOf(Tail(Arguments))
         ELSE FALSE

\* lines 760-767: the subtrees of every aligned root of every argument
RECURSIVE RootsSubtrees(_)
RootsSubtrees(Roots) ==
    IF Roots = <<>> THEN {}
    ELSE subtrees(RootST(Head(Roots))) \cup RootsSubtrees(Tail(Roots))

RECURSIVE ArgumentsSubtrees(_)
ArgumentsSubtrees(Arguments) ==
    IF Arguments = <<>> THEN {}
    ELSE RootsSubtrees(Head(Arguments).AlignedRoots)
         \cup ArgumentsSubtrees(Tail(Arguments))

\* lines 755-757: the set stays empty unless the arguments are aligned
StmtsExpandedFromArgumentsOf(Arguments, HasAlignedArguments) ==
    IF HasAlignedArguments THEN ArgumentsSubtrees(Arguments) ELSE {}

\* line 840: the guard of the body block
BodyBlockRuns(AlignedRoot, HasAlignedArguments) ==
    /\ AlignedRoot # NullRoot
    /\ RootST(AlignedRoot) # NullNode
    /\ HasAlignedArguments

\* Mutant of StmtsExpandedFromBodyOf: the statements expanded from the
\* arguments are not erased (lines 846-848 lost).
StmtsExpandedFromBodyOf_NoErase(AlignedRoot, HasAlignedArguments, FromArguments) ==
    IF BodyBlockRuns(AlignedRoot, HasAlignedArguments)
    THEN subtrees(RootST(AlignedRoot))
    ELSE {}

\* lines 838-848
StmtsExpandedFromBodyOf(AlignedRoot, HasAlignedArguments, FromArguments) ==
    IF BodyBlockRuns(AlignedRoot, HasAlignedArguments)
    THEN subtrees(RootST(AlignedRoot)) \ FromArguments
    ELSE {}

\* Mutant of IsControlFlowStmt: the test for GotoStmt is lost.
IsControlFlowStmt_NoGoto(St) ==
    Kind[St] \in {"ReturnStmt", "ContinueStmt", "BreakStmt"}

\* lines 1018-1024
IsControlFlowStmt(St) ==
    Kind[St] \in {"ReturnStmt", "ContinueStmt", "BreakStmt", "GotoStmt"}

\* lines 1009-1024
DoesExpansionHaveControlFlowStmtOf(FromBody, FromArguments) ==
    \E St \in FromBody \cup FromArguments : IsControlFlowStmt(St)

\* Mutant of ArgumentExpandedWhereModifiableValueRequired: the modified
\* operand is looked up as written, without skipImplicitAndParens (line 800
\* lost).
ArgumentExpandedWhereModifiableValueRequired_NoSkip(FromArguments) ==
    \E E \in SideEffectExprs :
        /\ E \notin FromArguments
        /\ Children[E][1] \in FromArguments

\* lines 785-805
ArgumentExpandedWhereModifiableValueRequired(FromArguments) ==
    \E E \in SideEffectExprs :
        /\ E \notin FromArguments
        /\ skipImplicitAndParens(Children[E][1]) \in FromArguments

\* lines 823-834: some statement expanded from an argument is in the tree of
\* an operand of a conditional expression
ArgumentConditionallyEvaluated(FromArguments) ==
    \E ArgStmt \in FromArguments :
        \E Operand \in ConditionalExprOperands :
            inTree(ArgStmt, Operand) = "true"

\* Whether the iteration calls children() through a null pointer: in
\* subtrees for a root of an argument (line 764) or for the aligned
\* statement (line 845), or in inTree (line 833).  The two std::any_of of
\* lines 824-834 visit the sets in the order of the addresses of the nodes
\* and stop at the first pair in the tree; the null pointer is reached when
\* a pair that leads to it comes first.
IterationDerefsNull(In) ==
    LET AlignedRoot == AlignedRootOf(In.ASTRoots)
        HasAlignedArguments == HasAlignedArgumentsOf(In.Arguments)
        InArguments ==
            \E i \in 1..Len(In.Arguments) :
                \E j \in 1..Len(In.Arguments[i].AlignedRoots) :
                    subtreesDerefsNull(RootST(In.Arguments[i].AlignedRoots[j]))
    IN  \/ HasAlignedArguments /\ InArguments
        \/ /\ HasAlignedArguments
           /\ ~InArguments
           /\ \E ArgStmt \in ArgumentsSubtrees(In.Arguments) :
                 \E Operand \in ConditionalExprOperands :
                     inTree(ArgStmt, Operand) = "null"
        \/ /\ BodyBlockRuns(AlignedRoot, HasAlignedArguments)
           /\ subtreesDerefsNull(RootST(AlignedRoot))

\* lines 960-1002: the loop over the arguments.  L holds the variables the
\* loop reads and writes.
RECURSIVE ArgumentLoop(_, _)
ArgumentLoop(Arguments, L) ==
    IF Arguments = <<>> THEN L
    ELSE
      LET Arg == Head(Arguments)
          L1 == [L EXCEPT
                   !.TypeSignature =
                       IF L.ArgNum # 0 THEN @ \o <<", ">> ELSE @,
                   !.ArgNum = @ + 1,
                   !.IsAnyArgumentNeverExpanded = (Arg.AlignedRoots = <<>>)]
      IN
      IF Arg.AlignedRoots = <<>>
      THEN ArgumentLoop(Tail(Arguments), L1)
      ELSE
        LET Arg1stExpST == RootST(Head(Arg.AlignedRoots))
            E == IF IsExpr(Arg1stExpST) THEN Arg1stExpST ELSE NullNode
            L2 == [L1 EXCEPT
                     !.IsAnyArgumentNotAnExpression = @ \/ (E = NullNode)]
        IN
        IF E = NullNode
        THEN ArgumentLoop(Tail(Arguments), L2)
        ELSE
          LET QT == ExprType[E]
              T == QT # NullType
              L3 == [L2 EXCEPT
                       !.IsAnyArgumentTypeNull = @ \/ (QT = NullType),
                       !.IsAnyArgumentTypeVoid =
                           IF T THEN QT \in VoidTypes ELSE @,
                       !.IsAnyArgumentTypeAnonymous =
                           IF T THEN hasAnonymousType(QT) ELSE @,
                       !.IsAnyArgumentTypeLocalType =
                           IF T THEN hasLocalType(QT) ELSE @,
                       !.IsAnyArgumentTypeDefinedAfterMacro =
                           @ \/ hasTypeDefinedAfter(QT),
                       !.TypeSignature =
                           @ \o <<IF T THEN QT ELSE "<Null>">>]
          IN ArgumentLoop(Tail(Arguments), L3)

\* Mutant of IsObjectLikeOf: MacroInfo::isFunctionLike in place of
\* MacroInfo::isObjectLike.
IsObjectLikeOf_FunctionLike(In) == ~In.ObjectLike

\* line 639: Exp->MI->isObjectLike()
IsObjectLikeOf(In) == In.ObjectLike

(***************************************************************************)
(* The body of the loop for a top-level expansion (lines 603-1104): the    *)
(* values of the locals when the record is written.  Exp is the node of    *)
(* the forest, In what the iteration reads about it, G the contents the    *)
(* uninitialized locals start with.  Strings built by concatenation are    *)
(* sequences of their pieces; the empty string is <<>>.  Left out are the  *)
(* fields computed from parts of the translation unit the model does not  *)
(* hold: the token flags, the descendant and declaration-order tests, and  *)
(* the address-of, short-circuit and ICE-context tests.                    *)
(***************************************************************************)
Evaluate(Exp, In, G) ==
    LET \* lines 670-680
        DefRes == tryGetFullSourceLoc(In.DefLoc, DefFile)
        InvRes == tryGetFullSourceLoc(In.SpellLoc, UseFile)
        \* line 698
        AlignedRoot == AlignedRootOf(In.ASTRoots)
        ST == RootST(AlignedRoot)
        TL == RootTL(AlignedRoot)
        AlignsWithTypeLoc ==
            AlignedRoot # NullRoot /\ ST = NullNode
            /\ RootD(AlignedRoot) = 0 /\ TL # 0
        \* lines 745-753
        HasAlignedArguments == HasAlignedArgumentsOf(In.Arguments)
        \* lines 755-768
        FromArguments ==
            StmtsExpandedFromArgumentsOf(In.Arguments, HasAlignedArguments)
        \* lines 838-848
        BodyRuns == BodyBlockRuns(AlignedRoot, HasAlignedArguments)
        FromBody ==
            StmtsExpandedFromBodyOf(AlignedRoot, HasAlignedArguments,
                                    FromArguments)
        \* lines 923-948
        IsE == BodyRuns /\ IsExpr(ST)
        QT == IF IsE THEN ExprType[ST] ELSE NullType
        T == QT # NullType
        ASTKind == IF IsE THEN "Expr" ELSE ASTKindOfRoot(AlignedRoot)
        AddsParens == ~In.ObjectLike /\ ASTKind \in {"Stmt", "Expr"}
        \* lines 922, 940, 951-957: the variables the argument loop starts with
        L0 == [TypeSignature |->
                   (IF IsE /\ T THEN <<QT>> ELSE <<"void">>)
                   \o (IF AddsParens THEN <<"(">> ELSE <<>>),
               ArgNum |-> 0,
               IsAnyArgumentNeverExpanded |-> G.IsAnyArgumentNeverExpanded,
               IsAnyArgumentNotAnExpression |-> FALSE,
               IsAnyArgumentTypeNull |-> FALSE,
               IsAnyArgumentTypeDefinedAfterMacro |-> FALSE,
               IsAnyArgumentTypeVoid |-> G.IsAnyArgumentTypeVoid,
               IsAnyArgumentTypeAnonymous |-> G.IsAnyArgumentTypeAnonymous,
               IsAnyArgumentTypeLocalType |-> G.IsAnyArgumentTypeLocalType]
        \* lines 959-1002
        L == IF BodyRuns THEN ArgumentLoop(In.Arguments, L0) ELSE L0
    IN
    [ Name |-> Exp.Name,
      DefinitionLocation |-> IF DefRes.first THEN DefRes.second ELSE <<>>,
      InvocationLocation |-> IF InvRes.first THEN InvRes.second ELSE <<>>,
      ASTKind |-> ASTKind,
      \* lines 1004-1006
      TypeSignature |->
          IF BodyRuns
          THEN L.TypeSignature \o (IF AddsParens THEN <<")">> ELSE <<>>)
          ELSE <<>>,
      InvocationDepth |-> Exp.Depth,
      NumASTRoots |-> Len(In.ASTRoots),
      NumArguments |-> Len(In.Arguments),
      HasAlignedArguments |-> HasAlignedArguments,
      HasSameNameAsOtherDeclaration |-> G.HasSameNameAsOtherDeclaration,
      DoesExpansionHaveControlFlowStmt |->
          DoesExpansionHaveControlFlowStmtOf(FromBody, FromArguments),
      \* lines 875-878
      DoesBodyContainDeclRefExpr |->
          IF BodyRuns
          THEN \E DRE \in AllDeclRefExprs : DRE \in FromBody
          ELSE G.DoesBodyContainDeclRefExpr,
      \* lines 775-783
      DoesAnyArgumentHaveSideEffects |->
          IF HasAlignedArguments
          THEN \E E \in SideEffectExprs : E \in FromArguments
          ELSE G.DoesAnyArgumentHaveSideEffects,
      DoesAnyArgumentContainDeclRefExpr |->
          IF HasAlignedArguments
          THEN \E DRE \in AllDeclRefExprs : DRE \in FromArguments
          ELSE G.DoesAnyArgumentContainDeclRefExpr,
      \* lines 899-902
      IsHygienic |->
          IF BodyRuns
          THEN ~ \E DRE \in DeclRefExprsOfLocallyDefinedDecls : DRE \in FromBody
          ELSE G.IsHygienic,
      IsDefinitionLocationValid |-> DefRes.first,
      IsInvocationLocationValid |-> InvRes.first,
      IsObjectLike |-> IsObjectLikeOf(In),
      IsInvokedInMacroArgument |-> Exp.InMacroArg,
      \* line 947
      IsExpansionICE |-> IF IsE THEN IsICE[ST] ELSE G.IsExpansionICE,
      \* lines 735 and 930
      IsExpansionTypeNull |->
          IF IsE THEN ~(QT = NullType)
          ELSE IF AlignsWithTypeLoc THEN TypeLocType[TL] = NullType
          ELSE G.IsExpansionTypeNull,
      \* lines 934-936
      IsExpansionTypeAnonymous |->
          IF IsE /\ T THEN hasAnonymousType(QT)
          ELSE G.IsExpansionTypeAnonymous,
      IsExpansionTypeLocalType |->
          IF IsE /\ T THEN hasLocalType(QT)
          ELSE G.IsExpansionTypeLocalType,
      \* lines 737-738 and 942-943
      IsExpansionTypeDefinedAfterMacro |->
          IF IsE THEN hasTypeDefinedAfter(QT)
          ELSE IF AlignsWithTypeLoc THEN hasTypeDefinedAfter(TypeLocType[TL])
          ELSE G.IsExpansionTypeDefinedAfterMacro,
      IsExpansionTypeVoid |->
          IF IsE /\ T THEN QT \in VoidTypes ELSE G.IsExpansionTypeVoid,
      IsAnyArgumentTypeNull |->
          IF BodyRuns THEN L.IsAnyArgumentTypeNull
          ELSE G.IsAnyArgumentTypeNull,
      IsAnyArgumentTypeAnonymous |-> L.IsAnyArgumentTypeAnonymous,
      IsAnyArgumentTypeLocalType |-> L.IsAnyArgumentTypeLocalType,
      IsAnyArgumentTypeDefinedAfterMacro |->
          IF BodyRuns THEN L.IsAnyArgumentTypeDefinedAfterMacro
          ELSE G.IsAnyArgumentTypeDefinedAfterMacro,
      IsAnyArgumentTypeVoid |-> L.IsAnyArgumentTypeVoid,
      \* lines 904-908
      IsInvokedWhereModifiableValueRequired |->
          IF BodyRuns
          THEN \E E \in SideEffectExprsLHSs : skipImplicitAndParens(E) = ST
          ELSE G.IsInvokedWhereModifiableValueRequired,
      IsAnyArgumentExpandedWhereModifiableValueRequired |->
          IF HasAlignedArguments
          THEN ArgumentExpandedWhereModifiableValueRequired(FromArguments)
          ELSE G.IsAnyArgumentExpandedWhereModifiableValueRequired,
      \* lines 823-834
      IsAnyArgumentConditionallyEvaluated |->
          IF HasAlignedArguments
          THEN ArgumentConditionallyEvaluated(FromArguments)
          ELSE G.IsAnyArgumentConditionallyEvaluated,
      IsAnyArgumentNeverExpanded |-> L.IsAnyArgumentNeverExpanded,
      IsAnyArgumentNotAnExpression |->
          IF BodyRuns THEN L.IsAnyArgumentNotAnExpression
          ELSE G.IsAnyArgumentNotAnExpression ]

(***************************************************************************)
(* Include directives (lines 280-359 and 419-435).  An entry of            *)
(* IC->IncludeEntriesLocs pairs the FileEntry of the included file (FE)    *)
(* with the location of the '#' of the directive (HashLoc).  A location    *)
(* carries what the SourceManager answers about it; a file location is a   *)
(* file and an offset in it.                                               *)
(***************************************************************************)
NullFE == [Null |-> TRUE, RealPathName |-> ""]
NamelessFE == [Null |-> FALSE, RealPathName |-> ""]
HeaderA == [Null |-> FALSE, RealPathName |-> "/inc/a.h"]
HeaderB == [Null |-> FALSE, RealPathName |-> "/inc/b.h"]

GoodHashLoc == [Valid |-> TRUE, FIDValid |-> TRUE, HasFileEntry |-> TRUE,
                IncludedInRealpath |-> "/src/main.c", FLocValid |-> TRUE,
                Pos |-> 5]

GoodHashLocs ==
    {[GoodHashLoc EXCEPT !.IncludedInRealpath = f, !.Pos = p] :
        f \in {"/src/main.c", "/inc/a.h"}, p \in {5, 15, 22}}

BadHashLocs ==
    { [GoodHashLoc EXCEPT !.Valid = FALSE],
      [GoodHashLoc EXCEPT !.FIDValid = FALSE],
      [GoodHashLoc EXCEPT !.HasFileEntry = FALSE],
      [GoodHashLoc EXCEPT !.IncludedInRealpath = ""],
      [GoodHashLoc EXCEPT !.FLocValid = FALSE] }

IncludeEntries ==
    [FE : {HeaderA, HeaderB}, HashLoc : GoodHashLocs]
    \cup [FE : {NullFE, NamelessFE}, HashLoc : {GoodHashLoc}]
    \cup [FE : {HeaderA}, HashLoc : BadHashLocs]

\* The declarations of the translation unit (lines 406-417): one in main.c
\* followed by a semicolon, one at the end of a.h with no token after it,
\* and one whose begin location is invalid.
Decls ==
    << [File |-> "/src/main.c", BValid |-> TRUE, B |-> 10,
        EValid |-> TRUE, E |-> 20,
        HasNextToken |-> TRUE, NextTokenEndValid |-> TRUE, NextTokenEnd |-> 22],
       [File |-> "/inc/a.h", BValid |-> TRUE, B |-> 10,
        EValid |-> TRUE, E |-> 20,
        HasNextToken |-> FALSE, NextTokenEndValid |-> FALSE, NextTokenEnd |-> 0],
       [File |-> "/src/main.c", BValid |-> FALSE, B |-> 0,
        EValid |-> TRUE, E |-> 30,
        HasNextToken |-> TRUE, NextTokenEndValid |-> TRUE, NextTokenEnd |-> 32] >>

\* lines 330-352: the predicate of std::any_of for one declaration
DeclRangeContains(D, File, Pos) ==
    IF ~D.BValid \/ ~D.EValid THEN FALSE
    ELSE IF D.HasNextToken /\ ~D.NextTokenEndValid THEN FALSE
    ELSE LET E == IF D.HasNextToken THEN D.NextTokenEnd ELSE D.E
         IN  D.File = File /\ D.B <= Pos /\ Pos <= E

\* Mutant of isGlobalInclude: the test of LocalIncludes (lines 320-321) is
\* lost.
isGlobalInclude_NoLocalIncludes(IEL, LocalIncludes_, Decls_) ==
    LET FE == IEL.FE
        HashLoc == IEL.HashLoc
    IN  IF FE.Null THEN [first |-> FALSE, second |-> "<null>"]
        ELSE IF FE.RealPathName = ""
             \/ ~HashLoc.Valid \/ ~HashLoc.FIDValid \/ ~HashLoc.HasFileEntry
             \/ HashLoc.IncludedInRealpath = ""
             \/ ~HashLoc.FLocValid
             \/ \E k \in 1..Len(Decls_) :
                   DeclRangeContains(Decls_[k], HashLoc.IncludedInRealpath,
                                     HashLoc.Pos)
        THEN [first |-> FALSE, second |-> FE.RealPathName]
        ELSE [first |-> TRUE, second |-> FE.RealPathName]

\* isGlobalInclude (lines 280-359)
isGlobalInclude(IEL, LocalIncludes_, Decls_) ==
    LET FE == IEL.FE
        HashLoc == IEL.HashLoc
        IncludedFileRealpath == FE.RealPathName
    IN  IF FE.Null THEN [first |-> FALSE, second |-> "<null>"]
        ELSE IF IncludedFileRealpath = ""
        THEN [first |-> FALSE, second |-> IncludedFileRealpath]
        ELSE IF ~HashLoc.Valid
        THEN [first |-> FALSE, second |-> IncludedFileRealpath]
        ELSE IF ~HashLoc.FIDValid
        THEN [first |-> FALSE, second |-> IncludedFileRealpath]
        ELSE IF ~HashLoc.HasFileEntry
        THEN [first |-> FALSE, second |-> IncludedFileRealpath]
        ELSE IF HashLoc.IncludedInRealpath = ""
        THEN [first |-> FALSE, second |-> IncludedFileRealpath]
        ELSE IF HashLoc.IncludedInRealpath \in LocalIncludes_
        THEN [first |-> FALSE, second |-> IncludedFileRealpath]
        ELSE IF ~HashLoc.FLocValid
        THEN [first |-> FALSE, second |-> IncludedFileRealpath]
        ELSE IF \E k \in 1..Len(Decls_) :
                   DeclRangeContains(Decls_[k], HashLoc.IncludedInRealpath,
                                     HashLoc.Pos)
        THEN [first |-> FALSE, second |-> IncludedFileRealpath]
        ELSE [first |-> TRUE, second |-> IncludedFileRealpath]

(***************************************************************************)
(* The macro forest (MF->Expansions, MF->InvocationStack).  A node holds   *)
(* Name, Depth, Parent and InMacroArg; MI tells whether its macro info     *)
(* pointer is non-null.  Parent is the position of the parent node in      *)
(* Expansions, 0 for none.  NullExp is a null pointer in the list.         *)
(***************************************************************************)
NullExp ==
    [Name |-> "", Depth |-> 0, InMacroArg |-> FALSE, Parent |-> 0,
     MI |-> FALSE]

NameOf(i) == IF i % 2 = 1 THEN "FOO" ELSE "BAR"

\* MacroExpansionNode::Children, read off the Parent links
ChildrenOf(f, i) == {j \in 1..Len(f) : f[j] # NullExp /\ f[j].Parent = i}

(***************************************************************************)
(* State.                                                                  *)
(*   Expansions   MF->Expansions                                           *)
(*   Stack        the expansions begun and not yet ended, innermost last   *)
(*   idx          position of the loop of line 588 in Expansions           *)
(*   pc           "build": the preprocessor is running and reports         *)
(*                expansions; "loop": between iterations of the loop of    *)
(*                line 588; "emitted": a record has been written and the   *)
(*                locals of the body are still in scope; "done": the loop  *)
(*                has ended; "aborted": an assertion has failed;           *)
(*                "crashed": a null pointer has been dereferenced;         *)
(*                "exit": the loop of line 1123 has ended                  *)
(*   cur          what the current iteration read about its expansion      *)
(*   rec          the locals of the body as written to the record          *)
(*   StmtsExpandedFromArguments, StmtsExpandedFromBody                     *)
(*                the two sets of the current iteration                    *)
(*   out          what has been written to llvm::outs(), one item per      *)
(*                marker line or record                                    *)
(*   del          position of the loop of line 1123 in Expansions          *)
(*   Deleted      the nodes deleted so far, in the order of their          *)
(*                deletion                                                 *)
(*   ReadAfterDelete                                                       *)
(*                the nodes whose Depth line 1124 has read after they      *)
(*                were deleted                                             *)
(*   IncludeEntriesLocs                                                    *)
(*                IC->IncludeEntriesLocs, in the order the directives were *)
(*                recorded                                                 *)
(*   LocalIncludes                                                         *)
(*                the set of line 419                                      *)
(*   inc          position of the loop of line 420 in IncludeEntriesLocs   *)
(*   ipc          "record": the preprocessor is running and records        *)
(*                include directives; "classify": the loop of line 420 is  *)
(*                running; "done": it has ended                            *)
(*   includeOut   the "Include" lines written, as Valid and IncludeName    *)
(*                                                                         *)
(* The include block reads and writes nothing the expansion loop uses, and *)
(* the expansion loop nothing of the include block (LocalIncludes and      *)
(* Decls are local to the block): the two are specified apart, as          *)
(* IncludeSpec and Spec.                                                   *)
(***************************************************************************)
VARIABLES Expansions, Stack, idx, pc, cur, rec,
          StmtsExpandedFromArguments, StmtsExpandedFromBody, out,
          del, Deleted, ReadAfterDelete,
          IncludeEntriesLocs, LocalIncludes, inc, ipc, includeOut

\* The loop of lines 1123-1125 and what it has done
teardownVars == <<del, Deleted, ReadAfterDelete>>

\* The include block of lines 419-435 and the list it reads
includeVars == <<IncludeEntriesLocs, LocalIncludes, inc, ipc, includeOut>>

\* The expansion forest, the loop of line 588 and the loop of line 1123
forestVars == <<Expansions, Stack, idx, pc, cur, rec,
                StmtsExpandedFromArguments, StmtsExpandedFromBody, out,
                teardownVars>>

vars == <<forestVars, includeVars>>

NoInput == [ObjectLike |-> FALSE, ASTRoots |-> <<>>, Arguments |-> <<>>,
            DefLoc |-> GoodAnswers, SpellLoc |-> GoodAnswers]
NoRecord == [Name |-> ""]

Init ==
    /\ Expansions = <<>>
    /\ Stack = <<>>
    /\ idx = 1
    /\ pc = "build"
    /\ cur = NoInput
    /\ rec = NoRecord
    /\ StmtsExpandedFromArguments = {}
    /\ StmtsExpandedFromBody = {}
    /\ out = <<>>
    /\ del = 1
    /\ Deleted = <<>>
    /\ ReadAfterDelete = {}
    /\ IncludeEntriesLocs = <<>>
    /\ LocalIncludes = {}
    /\ inc = 1
    /\ ipc = "record"
    /\ includeOut = <<>>

\* Mutant of NewNodeDepth: the depth counts the nodes of the list in place
\* of the expansions in flight.
NewNodeDepth_CountsList(S, f) == Len(f)

\* Depth of a node begun while the expansions of S are in flight: 0 at top
\* level, one more per level of nesting
NewNodeDepth(S, f) == Len(S)

\* begin_expansion: a new node is pushed and linked as child of the top of
\* the stack, or is a new root when the stack is empty.  Depth is assigned
\* here.  InArg tells whether the invocation is spelled inside an argument
\* of the enclosing expansion; the flag is inherited from the ancestors.
\* HasMI tells whether the definition yields a macro info.
BeginExpansion ==
    /\ pc = "build"
    /\ Len(Expansions) < MaxExpansions
    /\ Len(Stack) <= MaxDepth
    /\ \E InArg \in BOOLEAN, HasMI \in BOOLEAN :
          LET Parent == IF Stack = <<>> THEN 0 ELSE Stack[Len(Stack)]
              Node == [Name |-> NameOf(Len(Expansions) + 1),
                       Depth |-> NewNodeDepth(Stack, Expansions),
                       InMacroArg |->
                           InArg \/ (Parent # 0 /\ Expansions[Parent].InMacroArg),
                       Parent |-> Parent,
                       MI |-> HasMI]
          IN /\ Expansions' = Append(Expansions, Node)
             /\ Stack' = Append(Stack, Len(Expansions) + 1)
    /\ UNCHANGED <<idx, pc, cur, rec,
                   StmtsExpandedFromArguments, StmtsExpandedFromBody, out>>
    /\ UNCHANGED <<teardownVars, includeVars>>

\* end_expansion(id): the top of the stack is popped.  When id is not the
\* top of the stack, the construction of the subtrees still open above id
\* is given up: their nodes (every node begun after the one above id began)
\* are left as null placeholders, and the stack is popped through id.
EndExpansion ==
    /\ pc = "build"
    /\ \E k \in 1..Len(Stack) :
          /\ Stack' = SubSeq(Stack, 1, k - 1)
          /\ Expansions' =
                IF k = Len(Stack) THEN Expansions
                ELSE [i \in 1..Len(Expansions) |->
                         IF i >= Stack[k + 1] THEN NullExp ELSE Expansions[i]]
    /\ UNCHANGED <<idx, pc, cur, rec,
                   StmtsExpandedFromArguments, StmtsExpandedFromBody, out>>
    /\ UNCHANGED <<teardownVars, includeVars>>

\* line 588: HandleTranslationUnit reaches the loop once preprocessing and
\* parsing are over and every expansion has ended
BeginLoop ==
    /\ pc = "build"
    /\ Stack = <<>>
    /\ pc' = "loop"
    /\ UNCHANGED <<Expansions, Stack, idx, cur, rec,
                   StmtsExpandedFromArguments, StmtsExpandedFromBody, out>>
    /\ UNCHANGED <<teardownVars, includeVars>>

\* lines 590-591: assert(Exp); assert(Exp->MI);
AssertionsHold(Exp) == Exp # NullExp /\ Exp.MI

\* lines 590-591: a failed assertion ends the process.  (Without the
\* assertions line 594 reads through the null pointer and line 639 through
\* the null macro info.)
AssertFails ==
    /\ pc = "loop"
    /\ idx <= Len(Expansions)
    /\ ~AssertionsHold(Expansions[idx])
    /\ pc' = "aborted"
    /\ UNCHANGED <<Expansions, Stack, idx, cur, rec,
                   StmtsExpandedFromArguments, StmtsExpandedFromBody, out>>
    /\ UNCHANGED <<teardownVars, includeVars>>

\* lines 594-601: one marker line, then continue
EmitMarker ==
    /\ pc = "loop"
    /\ idx <= Len(Expansions)
    /\ AssertionsHold(Expansions[idx])
    /\ StopsAtMarker(Expansions[idx])
    /\ out' = Append(out, [kind |-> "marker",
                           label |-> MarkerLabel(Expansions[idx]),
                           name |-> Expansions[idx].Name,
                           exp |-> idx])
    /\ idx' = idx + 1
    /\ UNCHANGED <<Expansions, Stack, pc, cur, rec,
                   StmtsExpandedFromArguments, StmtsExpandedFromBody>>
    /\ UNCHANGED <<teardownVars, includeVars>>

\* lines 603-1118: the record of a top-level expansion
EmitRecord ==
    /\ pc = "loop"
    /\ idx <= Len(Expansions)
    /\ AssertionsHold(Expansions[idx])
    /\ ~StopsAtMarker(Expansions[idx])
    /\ \E In \in ExpansionInputs, G \in GarbageFrames :
          LET HasAlignedArguments == HasAlignedArgumentsOf(In.Arguments)
              FromArguments ==
                  StmtsExpandedFromArgumentsOf(In.Arguments,
                                               HasAlignedArguments)
          IN /\ ~IterationDerefsNull(In)
             /\ cur' = In
             /\ rec' = Evaluate(Expansions[idx], In, G)
             /\ StmtsExpandedFromArguments' = FromArguments
             /\ StmtsExpandedFromBody' =
                    StmtsExpandedFromBodyOf(AlignedRootOf(In.ASTRoots),
                                            HasAlignedArguments,
                                            FromArguments)
    /\ out' = Append(out, [kind |-> "record",
                           label |-> "Top level invocation",
                           name |-> Expansions[idx].Name,
                           exp |-> idx])
    /\ pc' = "emitted"
    /\ UNCHANGED <<Expansions, Stack, idx>>
    /\ UNCHANGED <<teardownVars, includeVars>>

\* lines 764, 833, 845: a traversal of the iteration calls children()
\* through a null pointer; the read through the null pointer ends the
\* process before the record is written
DereferenceNull ==
    /\ pc = "loop"
    /\ idx <= Len(Expansions)
    /\ AssertionsHold(Expansions[idx])
    /\ ~StopsAtMarker(Expansions[idx])
    /\ \E In \in ExpansionInputs :
          /\ IterationDerefsNull(In)
          /\ cur' = In
    /\ pc' = "crashed"
    /\ UNCHANGED <<Expansions, Stack, idx, rec,
                   StmtsExpandedFromArguments, StmtsExpandedFromBody, out>>
    /\ UNCHANGED <<teardownVars, includeVars>>

\* line 1119: the end of the loop body; its locals go out of scope
EndIteration ==
    /\ pc = "emitted"
    /\ pc' = "loop"
    /\ idx' = idx + 1
    /\ cur' = NoInput
    /\ rec' = NoRecord
    /\ StmtsExpandedFromArguments' = {}
    /\ StmtsExpandedFromBody' = {}
    /\ UNCHANGED <<Expansions, Stack, out>>
    /\ UNCHANGED <<teardownVars, includeVars>>

\* line 588: the loop ends after the last expansion
EndLoop ==
    /\ pc = "loop"
    /\ idx > Len(Expansions)
    /\ pc' = "done"
    /\ UNCHANGED <<Expansions, Stack, idx, cur, rec,
                   StmtsExpandedFromArguments, StmtsExpandedFromBody, out>>
    /\ UNCHANGED <<teardownVars, includeVars>>

\* The nodes the destructor of node i deletes, in order: the nodes expanded
\* under it first (a post-order walk), node i last.
RECURSIVE DeletedWith(_, _, _)
RECURSIVE DeletedWithAll(_, _, _)
DeletedWith(f, i, n) ==
    IF n = 0 THEN <<i>>
    ELSE DeletedWithAll(f, {j \in 1..Len(f) : f[j].Parent = i}, n - 1) \o <<i>>

DeletedWithAll(f, C, n) ==
    IF C = {} THEN <<>>
    ELSE LET j == CHOOSE x \in C : \A y \in C : x <= y
         IN  DeletedWith(f, j, n) \o DeletedWithAll(f, C \ {j}, n)

IsDeleted(i) == \E k \in 1..Len(Deleted) : Deleted[k] = i

\* lines 1123-1125 for a node that is still allocated: it is deleted when
\* its Depth is 0
DeleteIfTopLevel ==
    /\ pc = "done"
    /\ del <= Len(Expansions)
    /\ ~IsDeleted(del)
    /\ Deleted' =
          IF Expansions[del].Depth = 0
          THEN Deleted \o DeletedWith(Expansions, del, Len(Expansions))
          ELSE Deleted
    /\ del' = del + 1
    /\ UNCHANGED <<Expansions, Stack, idx, pc, cur, rec,
                   StmtsExpandedFromArguments, StmtsExpandedFromBody, out,
                   ReadAfterDelete>>
    /\ UNCHANGED includeVars

\* lines 1123-1125 for a node that the deletion of an earlier node has
\* already deleted: line 1124 reads Depth from freed memory.  The read may
\* yield any depth; on 0 the node is deleted a second time.
ReadDeletedNode ==
    /\ pc = "done"
    /\ del <= Len(Expansions)
    /\ IsDeleted(del)
    /\ ReadAfterDelete' = ReadAfterDelete \cup {del}
    /\ \E Depth \in 0..MaxDepth :
          Deleted' =
              IF Depth = 0
              THEN Deleted \o DeletedWith(Expansions, del, Len(Expansions))
              ELSE Deleted
    /\ del' = del + 1
    /\ UNCHANGED <<Expansions, Stack, idx, pc, cur, rec,
                   StmtsExpandedFromArguments, StmtsExpandedFromBody, out>>
    /\ UNCHANGED includeVars

\* line 1123: the loop ends after the last expansion
EndTeardown ==
    /\ pc = "done"
    /\ del > Len(Expansions)
    /\ pc' = "exit"
    /\ UNCHANGED <<Expansions, Stack, idx, cur, rec,
                   StmtsExpandedFromArguments, StmtsExpandedFromBody, out,
                   teardownVars>>
    /\ UNCHANGED includeVars

Next ==
    \/ BeginExpansion
    \/ EndExpansion
    \/ BeginLoop
    \/ AssertFails
    \/ EmitMarker
    \/ EmitRecord
    \/ DereferenceNull
    \/ EndIteration
    \/ EndLoop
    \/ DeleteIfTopLevel
    \/ ReadDeletedNode
    \/ EndTeardown

Spec == Init /\ [][Next]_vars

\* The preprocessor reports an include directive: its entry is appended
InclusionDirective ==
    /\ ipc = "record"
    /\ Len(IncludeEntriesLocs) < MaxIncludes
    /\ \E IEL \in IncludeEntries :
          IncludeEntriesLocs' = Append(IncludeEntriesLocs, IEL)
    /\ UNCHANGED <<LocalIncludes, inc, ipc, includeOut>>
    /\ UNCHANGED forestVars

\* lines 419-420: the loop starts with an empty LocalIncludes
BeginIncludes ==
    /\ ipc = "record"
    /\ ipc' = "classify"
    /\ LocalIncludes' = {}
    /\ inc' = 1
    /\ UNCHANGED <<IncludeEntriesLocs, includeOut>>
    /\ UNCHANGED forestVars

\* lines 420-435: one iteration of the loop over the entries
ClassifyInclude ==
    /\ ipc = "classify"
    /\ inc <= Len(IncludeEntriesLocs)
    /\ LET Res == isGlobalInclude(IncludeEntriesLocs[inc], LocalIncludes, Decls)
       IN  /\ LocalIncludes' =
                 IF ~Res.first THEN LocalIncludes \cup {Res.second}
                 ELSE LocalIncludes
           /\ includeOut' =
                 Append(includeOut,
                        [Valid |-> Res.first, IncludeName |-> Res.second])
    /\ inc' = inc + 1
    /\ UNCHANGED <<IncludeEntriesLocs, ipc>>
    /\ UNCHANGED forestVars

\* line 420: the loop ends after the last entry
EndIncludes ==
    /\ ipc = "classify"
    /\ inc > Len(IncludeEntriesLocs)
    /\ ipc' = "done"
    /\ UNCHANGED <<IncludeEntriesLocs, LocalIncludes, inc, includeOut>>
    /\ UNCHANGED forestVars

IncludeNext ==
    \/ InclusionDirective
    \/ BeginIncludes
    \/ ClassifyInclude
    \/ EndIncludes

IncludeSpec == Init /\ [][IncludeNext]_vars

(***************************************************************************)
(* Properties.                                                             *)
(***************************************************************************)
AlignedRootOfCur == AlignedRootOf(cur.ASTRoots)

\* C1: every expansion the loop has passed wrote exactly one item, in list
\* order; the item is a record exactly when Depth = 0 and InMacroArg is
\* false; otherwise it is one marker line, labelled "Nested Invocation" when
\* Depth # 0 (whatever InMacroArg is) and "Invoked In Macro Argument" when
\* Depth = 0 and InMacroArg is true.
C1_RecordIffTopLevel ==
    /\ Len(out) = (IF pc = "emitted" THEN idx ELSE idx - 1)
    /\ \A i \in 1..Len(out) :
          LET E == Expansions[i]
          IN /\ out[i].exp = i
             /\ out[i].name = E.Name
             /\ (out[i].kind = "record") <=> (E.Depth = 0 /\ ~E.InMacroArg)
             /\ out[i].kind = "record" => out[i].label = "Top level invocation"
             /\ out[i].kind # "record" => out[i].kind = "marker"
             /\ E.Depth # 0 => out[i].label = "Nested Invocation"
             /\ (E.Depth = 0 /\ E.InMacroArg)
                    => out[i].label = "Invoked In Macro Argument"

C1_Witness ==
    /\ pc = "done"
    /\ Len(out) = 2
    /\ out[1].kind = "record"
    /\ out[2].label = "Nested Invocation"
    /\ Expansions[2].InMacroArg

\* C5: in every record HasAlignedArguments is true exactly when every
\* argument has as many aligned roots as expected expansions; it is true
\* for an expansion without arguments.
C5_HasAlignedArguments ==
    pc = "emitted" =>
        /\ rec.HasAlignedArguments =
              (\A i \in 1..Len(cur.Arguments) :
                  Len(cur.Arguments[i].AlignedRoots)
                      = cur.Arguments[i].NumExpansions)
        /\ cur.Arguments = <<>> => rec.HasAlignedArguments

C5_Witness ==
    /\ pc = "emitted"
    /\ Len(cur.Arguments) = 2
    /\ Len(cur.Arguments[1].AlignedRoots) = cur.Arguments[1].NumExpansions
    /\ Len(cur.Arguments[2].AlignedRoots) # cur.Arguments[2].NumExpansions
    /\ ~rec.HasAlignedArguments

\* C6: in every record DoesExpansionHaveControlFlowStmt is true exactly when
\* the body set or the argument set holds a return, break, continue or goto
\* statement; it is false whenever HasAlignedArguments is false, both sets
\* being empty then.
C6_ControlFlowStmt ==
    pc = "emitted" =>
        /\ rec.DoesExpansionHaveControlFlowStmt =
              (\E St \in StmtsExpandedFromBody \cup StmtsExpandedFromArguments :
                  \/ Kind[St] = "ReturnStmt"
                  \/ Kind[St] = "BreakStmt"
                  \/ Kind[St] = "ContinueStmt"
                  \/ Kind[St] = "GotoStmt")
        /\ ~rec.HasAlignedArguments =>
              /\ StmtsExpandedFromBody = {}
              /\ StmtsExpandedFromArguments = {}
              /\ ~rec.DoesExpansionHaveControlFlowStmt

C6_Witness ==
    /\ pc = "emitted"
    /\ rec.DoesExpansionHaveControlFlowStmt
    /\ \E St \in StmtsExpandedFromArguments : Kind[St] = "BreakStmt"
    /\ \A St \in StmtsExpandedFromBody : Kind[St] # "BreakStmt"

\* The statements reachable from a statement through Stmt::children().
RECURSIVE ReachableFrom(_, _)
ReachableFrom(S, n) ==
    IF n = 0 THEN S
    ELSE ReachableFrom(
            S \cup (UNION {{Children[x][k] : k \in DOMAIN Children[x]} : x \in S}
                       \ {NullNode}),
            n - 1)

TransitiveSubtrees(ST) == ReachableFrom({ST}, Cardinality(Nodes))

\* C2: for a top-level expansion with an aligned root R, the body set and
\* the argument set are disjoint and both lie in the transitive subtrees of
\* R, also when an argument's aligned roots are not descendants of R.  (The
\* containment is left unchecked where R is a declaration or a
\* type-location, whose subtrees the program never visits.)
C2_SetsWithinAlignedRoot ==
    (pc = "emitted" /\ AlignedRootOfCur # NullRoot) =>
        /\ StmtsExpandedFromBody \cap StmtsExpandedFromArguments = {}
        /\ RootST(AlignedRootOfCur) # NullNode =>
              (StmtsExpandedFromBody \cup StmtsExpandedFromArguments)
                  \subseteq TransitiveSubtrees(RootST(AlignedRootOfCur))

\* C3: with a null aligned root, an aligned root that is no statement, or
\* arguments that are not all aligned, the record is written and every flag
\* whose guarded block was skipped is false.
C3_SkippedFlagsAreFalse ==
    pc = "emitted" =>
        /\ out[Len(out)].kind = "record"
        /\ ~BodyBlockRuns(AlignedRootOfCur, rec.HasAlignedArguments) =>
              /\ ~rec.IsHygienic
              /\ ~rec.DoesBodyContainDeclRefExpr
              /\ ~rec.IsExpansionICE
              /\ ~rec.IsAnyArgumentNeverExpanded
              /\ ~rec.IsInvokedWhereModifiableValueRequired
        /\ ~rec.HasAlignedArguments =>
              /\ ~rec.DoesAnyArgumentHaveSideEffects
              /\ ~rec.DoesAnyArgumentContainDeclRefExpr
              /\ ~rec.IsAnyArgumentExpandedWhereModifiableValueRequired

\* C4: every field of a record is a function of the expansion, the forest
\* and the translation-unit sets alone: whatever the uninitialized locals
\* held, the record is the same.
C4_RecordIsDeterministic ==
    pc = "emitted" =>
        \A G \in GarbageFrames : rec = Evaluate(Expansions[idx], cur, G)

\* C7: ASTKind is "Expr" when the aligned root is a statement that is an
\* expression, "Stmt" for any other statement, "Decl" for a declaration,
\* "TypeLoc" for a type-location and empty without aligned root, whether or
\* not the arguments are aligned.
C7_ASTKindFollowsAlignedRoot ==
    pc = "emitted" =>
        rec.ASTKind =
            (IF AlignedRootOfCur = NullRoot THEN ""
             ELSE IF AlignedRootOfCur.tag = "ST"
                  THEN (IF Kind[AlignedRootOfCur.id] \in ExprKinds
                        THEN "Expr" ELSE "Stmt")
             ELSE IF AlignedRootOfCur.tag = "D" THEN "Decl"
             ELSE "TypeLoc")

\* The type strings of the arguments that are not skipped, in order.
RECURSIVE ArgumentTypeStrings(_)
ArgumentTypeStrings(Arguments) ==
    IF Arguments = <<>> THEN <<>>
    ELSE LET A == Head(Arguments)
             Skipped == \/ A.AlignedRoots = <<>>
                        \/ ~IsExpr(RootST(A.AlignedRoots[1]))
         IN (IF Skipped THEN <<>>
             ELSE LET QT == ExprType[RootST(A.AlignedRoots[1])]
                  IN <<IF QT = NullType THEN "<Null>" ELSE QT>>)
            \o ArgumentTypeStrings(Tail(Arguments))

RECURSIVE JoinWithCommas(_)
JoinWithCommas(Strs) ==
    IF Len(Strs) <= 1 THEN Strs
    ELSE <<Head(Strs), ", ">> \o JoinWithCommas(Tail(Strs))

\* C8: where the type signature is built (aligned statement, aligned
\* arguments) it is just the body type (or "void") for an object-like macro
\* and for one aligned with a statement that is no expression; otherwise it
\* is ReturnType(Arg1, Arg2, ...) with one type per argument that is not
\* skipped, separated by ", ", and no empty component.
C8_TypeSignatureShape ==
    (pc = "emitted"
        /\ BodyBlockRuns(AlignedRootOfCur, rec.HasAlignedArguments)) =>
        LET ST == RootST(AlignedRootOfCur)
            BodyType == IF IsExpr(ST) /\ ExprType[ST] # NullType
                        THEN ExprType[ST] ELSE "void"
        IN rec.TypeSignature =
              (IF cur.ObjectLike \/ ~IsExpr(ST)
               THEN <<BodyType>>
               ELSE <<BodyType, "(">>
                    \o JoinWithCommas(ArgumentTypeStrings(cur.Arguments))
                    \o <<")">>)

\* C9: HasSameNameAsOtherDeclaration is false in every record.
C9_HasSameNameIsFalse ==
    pc = "emitted" => rec.HasSameNameAsOtherDeclaration = FALSE

\* The error of the first check of tryGetFullSourceLoc that a location
\* fails, in the order the checks are made.
FirstFailedCheck(L) ==
    IF ~L.SLocValid THEN "Invalid SLoc"
    ELSE IF ~L.FIDValid THEN "Invalid file ID"
    ELSE IF ~L.HasFileEntry THEN "File without FileEntry"
    ELSE IF ~L.Named THEN "Nameless file"
    ELSE "Invalid File SLoc"

Resolves(L) == L = GoodAnswers

\* C10 as stated: when a location of a top-level expansion does not
\* resolve, the record's location field is the error string of the first
\* failed check.
C10_RecordReportsError ==
    pc = "emitted" =>
        /\ ~Resolves(cur.DefLoc) =>
              rec.DefinitionLocation = <<FirstFailedCheck(cur.DefLoc)>>
        /\ ~Resolves(cur.SpellLoc) =>
              rec.InvocationLocation = <<FirstFailedCheck(cur.SpellLoc)>>

\* C10 amended: when a location of a top-level expansion does not resolve,
\* tryGetFullSourceLoc returns failure with the error string of the first
\* failed check (invalid SLoc, invalid file ID, no FileEntry, nameless file,
\* invalid file SLoc, in that order); the record is still written, with the
\* location field empty and its validity flag false.  A location that
\* resolves is reported as real path, line and column.
C10_FailureLeavesLocationEmpty ==
    pc = "emitted" =>
        /\ out[Len(out)].kind = "record"
        /\ IF Resolves(cur.DefLoc)
           THEN /\ rec.IsDefinitionLocationValid
                /\ rec.DefinitionLocation = <<"/src/defs.h", "3", "9">>
           ELSE /\ tryGetFullSourceLoc(cur.DefLoc, DefFile) =
                      [first |-> FALSE,
                       second |-> <<FirstFailedCheck(cur.DefLoc)>>]
                /\ ~rec.IsDefinitionLocationValid
                /\ rec.DefinitionLocation = <<>>
        /\ IF Resolves(cur.SpellLoc)
           THEN /\ rec.IsInvocationLocationValid
                /\ rec.InvocationLocation = <<"/src/main.c", "7", "5">>
           ELSE /\ tryGetFullSourceLoc(cur.SpellLoc, UseFile) =
                      [first |-> FALSE,
                       second |-> <<FirstFailedCheck(cur.SpellLoc)>>]
                /\ ~rec.IsInvocationLocationValid
                /\ rec.InvocationLocation = <<>>

C10_Witness ==
    /\ pc = "emitted"
    /\ cur.DefLoc.SLocValid
    /\ ~cur.DefLoc.FIDValid
    /\ ~cur.DefLoc.Named
    /\ rec.DefinitionLocation = <<>>
    /\ ~rec.IsDefinitionLocationValid
    /\ rec.IsInvocationLocationValid

\* C11: the loop of line 588 always runs to completion, also over a forest
\* with null placeholders or nodes without macro info: once the program has
\* stopped, the loop has passed every expansion of the list, and each
\* expansion it passed wrote at most one item (a record or a marker line),
\* in list order.
C11_LoopRunsToCompletion ==
    /\ pc \in {"done", "aborted"} => idx = Len(Expansions) + 1
    /\ Len(out) <= idx
    /\ \A i \in 1..Len(out) :
          \A j \in 1..Len(out) : i < j => out[i].exp < out[j].exp

\* The ancestors of node i: the nodes reached by following Parent at most n
\* times.
RECURSIVE AncestorsOf(_, _, _)
AncestorsOf(f, i, n) ==
    IF n = 0 \/ f[i].Parent = 0 THEN {}
    ELSE {f[i].Parent} \cup AncestorsOf(f, f[i].Parent, n - 1)

\* C13: after any sequence of begin_expansion / end_expansion events every
\* expansion node has Depth = 0 exactly when it has no parent, a child is
\* one level deeper than its parent, and the parent/child links form an
\* acyclic forest (no node is its own ancestor, every parent is a node of
\* the list).
C13_ForestShape ==
    \A i \in 1..Len(Expansions) :
        LET N == Expansions[i]
        IN N # NullExp =>
              /\ (N.Depth = 0) <=> (N.Parent = 0)
              /\ N.Parent # 0 =>
                    /\ N.Parent \in 1..Len(Expansions)
                    /\ Expansions[N.Parent] # NullExp
                    /\ N.Depth = Expansions[N.Parent].Depth + 1
              /\ i \notin AncestorsOf(Expansions, i, Len(Expansions))
              /\ \A j \in ChildrenOf(Expansions, i) :
                    Expansions[j].Depth = N.Depth + 1

\* Every expansion has ended and the second one was begun and ended inside
\* the first.
C13_Witness ==
    /\ pc = "build"
    /\ Stack = <<>>
    /\ Len(Expansions) = 2
    /\ Expansions[2] # NullExp
    /\ Expansions[2].Parent = 1
    /\ Expansions[2].Depth = 1
    /\ Expansions[1].Depth = 0

\* C12: the aligned root is non-null exactly when one AST match was found
\* across the statement, declaration and type-location searches; in every
\* record a non-empty ASTKind implies NumASTRoots = 1, and NumASTRoots = 0
\* or NumASTRoots > 1 implies an empty ASTKind.
C12_ASTKindNeedsSingleRoot ==
    pc = "emitted" =>
        /\ rec.NumASTRoots = Len(cur.ASTRoots)
        /\ (AlignedRootOfCur # NullRoot) <=> (Len(cur.ASTRoots) = 1)
        /\ rec.ASTKind # "" => rec.NumASTRoots = 1
        /\ (rec.NumASTRoots = 0 \/ rec.NumASTRoots > 1) => rec.ASTKind = ""

C12_Witness ==
    /\ pc = "emitted"
    /\ rec.NumASTRoots = 2
    /\ rec.ASTKind = ""
    /\ rec.HasAlignedArguments

C16_AnyArgumentNeverExpanded ==
    (pc = "emitted" /\ rec.HasAlignedArguments) =>
        rec.IsAnyArgumentNeverExpanded =
            (\E i \in 1..Len(cur.Arguments) :
                cur.Arguments[i].AlignedRoots = <<>>)

\* The type of the expression an argument's first aligned root is, and
\* whether it has one.
ArgumentHasTypedExpr(A) ==
    /\ A.AlignedRoots # <<>>
    /\ IsExpr(RootST(A.AlignedRoots[1]))
    /\ ExprType[RootST(A.AlignedRoots[1])] # NullType

ArgumentTypeIn(A, Ts) ==
    ArgumentHasTypedExpr(A) /\ ExprType[RootST(A.AlignedRoots[1])] \in Ts

\* C17: where the argument loop runs and some argument's first aligned root
\* is an expression with a type, each of IsAnyArgumentTypeVoid,
\* IsAnyArgumentTypeAnonymous and IsAnyArgumentTypeLocalType is true exactly
\* when the first aligned root of at least one argument is an expression
\* whose type has the property; a later argument without it does not reset
\* the flag.
C17_ArgumentTypeFlagsAccumulate ==
    (pc = "emitted"
        /\ BodyBlockRuns(AlignedRootOfCur, rec.HasAlignedArguments)
        /\ \E i \in 1..Len(cur.Arguments) :
              ArgumentHasTypedExpr(cur.Arguments[i])) =>
        /\ rec.IsAnyArgumentTypeVoid =
              (\E i \in 1..Len(cur.Arguments) :
                  ArgumentTypeIn(cur.Arguments[i], VoidTypes))
        /\ rec.IsAnyArgumentTypeAnonymous =
              (\E i \in 1..Len(cur.Arguments) :
                  ArgumentTypeIn(cur.Arguments[i], AnonymousTypes))
        /\ rec.IsAnyArgumentTypeLocalType =
              (\E i \in 1..Len(cur.Arguments) :
                  ArgumentTypeIn(cur.Arguments[i], LocalTypes))

\* C18: when the aligned root is an expression (and the body block runs),
\* IsExpansionTypeNull is true exactly when the type of the expression is
\* null; an expression with a type yields false.
C18_ExpansionTypeNullPolarity ==
    (pc = "emitted"
        /\ BodyBlockRuns(AlignedRootOfCur, rec.HasAlignedArguments)
        /\ IsExpr(RootST(AlignedRootOfCur))) =>
        rec.IsExpansionTypeNull =
            (ExprType[RootST(AlignedRootOfCur)] = NullType)

\* Assignments, increments and decrements of the translation unit, and the
\* operand each of them modifies.
IsSideEffect(n) ==
    \/ Kind[n] = "BinaryOperator" /\ Opcode[n] \in {"=", "+=", "-="}
    \/ Kind[n] = "UnaryOperator" /\ Opcode[n] \in {"++", "--"}

ModifiedOperand(n) == Children[n][1]

\* C19: in a record with HasAlignedArguments true,
\* IsAnyArgumentExpandedWhereModifiableValueRequired is true exactly when
\* some side-effect expression outside the argument set modifies an operand
\* that, stripped of parentheses and implicit casts, is in the argument set;
\* DoesAnyArgumentHaveSideEffects is true exactly when a side-effect
\* expression is in the argument set.  So a side effect of the body on an
\* argument sets the first flag only, and a side effect wholly inside an
\* argument the second only.
C19_ModifiableValueRequired ==
    (pc = "emitted" /\ rec.HasAlignedArguments) =>
        /\ rec.IsAnyArgumentExpandedWhereModifiableValueRequired =
              (\E n \in Nodes :
                  /\ IsSideEffect(n)
                  /\ n \notin StmtsExpandedFromArguments
                  /\ skipImplicitAndParens(ModifiedOperand(n))
                        \in StmtsExpandedFromArguments)
        /\ rec.DoesAnyArgumentHaveSideEffects =
              (\E n \in StmtsExpandedFromArguments : IsSideEffect(n))

\* (k)-- in the body with k as the argument: the operand is reached through
\* the parentheses.
C19_Witness ==
    /\ pc = "emitted"
    /\ rec.HasAlignedArguments
    /\ AlignedRootOfCur = StmtRoot(16)
    /\ StmtsExpandedFromArguments = {18}
    /\ rec.IsAnyArgumentExpandedWhereModifiableValueRequired
    /\ ~rec.DoesAnyArgumentHaveSideEffects

\* C20: in a record whose aligned root is a statement and whose arguments
\* are aligned, IsHygienic is true exactly when no reference to a variable
\* with local storage is in the body set (the subtrees of the aligned
\* statement less the argument set); a reference inside an argument's
\* subtree alone leaves the expansion hygienic.
C20_Hygienic ==
    (pc = "emitted"
        /\ BodyBlockRuns(AlignedRootOfCur, rec.HasAlignedArguments)) =>
        /\ StmtsExpandedFromBody =
              TransitiveSubtrees(RootST(AlignedRootOfCur))
                  \ StmtsExpandedFromArguments
        /\ rec.IsHygienic =
              ~(\E n \in StmtsExpandedFromBody :
                   Kind[n] = "DeclRefExpr" /\ RefersToLocal[n])

\* a = (g) with the local a as the argument: the only reference to a local
\* is expanded from the argument.
C20_Witness ==
    /\ pc = "emitted"
    /\ AlignedRootOfCur = StmtRoot(1)
    /\ rec.HasAlignedArguments
    /\ 2 \in StmtsExpandedFromArguments
    /\ rec.IsHygienic

\* C21: in a record whose aligned root is a statement ST and whose
\* arguments are aligned, IsInvokedWhereModifiableValueRequired is true
\* exactly when the modified operand of some side-effect expression of the
\* translation unit, with every layer of parentheses and implicit casts
\* stripped, is ST itself; skipImplicitAndParens returns null for null and
\* never returns a ParenExpr or an ImplicitCastExpr.
C21_InvokedWhereModifiableValueRequired ==
    /\ skipImplicitAndParens(NullNode) = NullNode
    /\ \A n \in Nodes :
          Kind[skipImplicitAndParens(n)] \notin {"ParenExpr", "ImplicitCastExpr"}
    /\ (pc = "emitted"
          /\ BodyBlockRuns(AlignedRootOfCur, rec.HasAlignedArguments)) =>
          rec.IsInvokedWhereModifiableValueRequired =
              (\E n \in Nodes :
                  /\ IsSideEffect(n)
                  /\ skipImplicitAndParens(ModifiedOperand(n))
                        = RootST(AlignedRootOfCur))

\* The expansion is aligned with k, the operand of (k)--, which is modified
\* through a layer of parentheses.
C21_Witness ==
    /\ pc = "emitted"
    /\ AlignedRootOfCur = StmtRoot(18)
    /\ rec.HasAlignedArguments
    /\ rec.IsInvokedWhereModifiableValueRequired

\* The statements of the roots aligned with the arguments of the current
\* expansion.
ArgumentRootStmts ==
    UNION {{RootST(cur.Arguments[i].AlignedRoots[j]) :
               j \in 1..Len(cur.Arguments[i].AlignedRoots)} :
              i \in 1..Len(cur.Arguments)} \ {NullNode}

\* C24: no iteration dereferences a null node in subtrees or inTree, also
\* when a child list holds a null child; in every record the sets subtrees
\* returned are the roots with all their transitive children (nothing for
\* a null root), and inTree answered true exactly for the statements in the
\* subtrees of its second argument.
C24_TraversalsAreNullSafe ==
    /\ pc # "crashed"
    /\ (pc = "emitted" /\ rec.HasAlignedArguments) =>
          /\ StmtsExpandedFromArguments =
                UNION {TransitiveSubtrees(ST) : ST \in ArgumentRootStmts}
          /\ rec.IsAnyArgumentConditionallyEvaluated =
                (\E St \in StmtsExpandedFromArguments :
                    \E Operand \in ConditionalExprOperands :
                        St \in TransitiveSubtrees(Operand))

\* C22: at teardown every expansion node is deleted exactly once, by a
\* post-order walk started from the top-level nodes only, and the loop over
\* the list never reads a field of a node that an earlier deletion has
\* freed.
C22_DeletedOnceNeverReadAfter ==
    /\ ReadAfterDelete = {}
    /\ \A k \in 1..Len(Deleted) :
          \A l \in 1..Len(Deleted) : Deleted[k] = Deleted[l] => k = l
    /\ \A k \in 1..Len(Deleted) :
          \A l \in 1..Len(Deleted) :
              Expansions[Deleted[l]].Parent = Deleted[k] => l < k
    /\ pc = "exit" =>
          \A i \in 1..Len(Expansions) : \E k \in 1..Len(Deleted) : Deleted[k] = i


\* The hash location of an entry lies in the range of a declaration, the
\* range running to the end of the token after the declaration when there is
\* one
InsideDeclRange(IEL) ==
    \E k \in 1..Len(Decls) :
        /\ Decls[k].BValid /\ Decls[k].EValid
        /\ Decls[k].File = IEL.HashLoc.IncludedInRealpath
        /\ Decls[k].B <= IEL.HashLoc.Pos
        /\ IEL.HashLoc.Pos <=
              (IF Decls[k].HasNextToken THEN Decls[k].NextTokenEnd
               ELSE Decls[k].E)

\* C23: include directives are classified in the order they were recorded
\* (the j-th line written names the file of the j-th entry); LocalIncludes
\* holds exactly the names reported as not global, so a global result adds
\* nothing; once a name is reported as not global every later include whose
\* enclosing file is that file is reported as not global; and an include is
\* reported global only if its enclosing file is not in LocalIncludes and
\* its hash location lies inside no declaration range.
C23_NonGlobalityPropagates ==
    /\ Len(includeOut) = (IF ipc = "record" THEN 0 ELSE inc - 1)
    /\ Len(includeOut) <= Len(IncludeEntriesLocs)
    /\ \A j \in 1..Len(includeOut) :
          includeOut[j].IncludeName =
             (IF IncludeEntriesLocs[j].FE.Null THEN "<null>"
              ELSE IncludeEntriesLocs[j].FE.RealPathName)
    /\ LocalIncludes =
          {includeOut[j].IncludeName :
              j \in {k \in 1..Len(includeOut) : ~includeOut[k].Valid}}
    /\ \A i \in 1..Len(includeOut) : \A j \in 1..Len(includeOut) :
          ( /\ i < j
            /\ ~includeOut[i].Valid
            /\ IncludeEntriesLocs[j].HashLoc.HasFileEntry
            /\ IncludeEntriesLocs[j].HashLoc.IncludedInRealpath =
                  includeOut[i].IncludeName )
          => ~includeOut[j].Valid
    /\ \A j \in 1..Len(includeOut) :
          includeOut[j].Valid =>
             /\ ~InsideDeclRange(IncludeEntriesLocs[j])
             /\ \A i \in 1..(j - 1) :
                   ~includeOut[i].Valid =>
                      includeOut[i].IncludeName #
                         IncludeEntriesLocs[j].HashLoc.IncludedInRealpath

\* a.h is included inside a declaration of main.c and reported as not
\* global; b.h, included from a.h outside every declaration, is then
\* reported as not global too.
C23_Witness ==
    /\ ipc = "done"
    /\ Len(includeOut) = 2
    /\ IncludeEntriesLocs[1].FE = HeaderA
    /\ IncludeEntriesLocs[1].HashLoc.IncludedInRealpath = "/src/main.c"
    /\ InsideDeclRange(IncludeEntriesLocs[1])
    /\ ~includeOut[1].Valid
    /\ IncludeEntriesLocs[2].FE = HeaderB
    /\ IncludeEntriesLocs[2].HashLoc \in GoodHashLocs
    /\ IncludeEntriesLocs[2].HashLoc.IncludedInRealpath = "/inc/a.h"
    /\ ~InsideDeclRange(IncludeEntriesLocs[2])
    /\ ~includeOut[2].Valid
    /\ LocalIncludes = {"/inc/a.h", "/inc/b.h"}

=============================================================================
